---- MODULE Spec2Model ----
(***************************************************************************)
(* Model of the game-id extraction of garden_sync.py: the per-file parse   *)
(* (extract_from_file_v2), the cached directory scan (process_directory)   *)
(* and the reconciliation and persistence of run_extraction.               *)
(*                                                                         *)
(* Representation.                                                         *)
(*  - A Python dict whose iteration order the code depends on is a         *)
(*    sequence of <<key, value>> pairs in insertion order.                 *)
(*  - The nested counters date -> hour -> count are one function on        *)
(*    <<date, hour>> pairs: the code creates a date together with its      *)
(*    first hour and deletes a date as a whole, so a date is present       *)
(*    exactly when one of its pairs is.                                    *)
(*  - A date string YYYY/MM/DD is its day number, counted from EpochDate   *)
(*    (DateStr and DayNumber go from one to the other); string order on    *)
(*    the dates is the order of the day numbers.  Time is in minutes.      *)
(*  - A game key is a string; KeyRank gives its place in string order.     *)
(*  - The md5 hash of a message is the content it is computed from.        *)
(***************************************************************************)
EXTENDS Integers, Sequences, FiniteSets, TLC

VARIABLES
    files,        \* path -> the records of the .dat file (<<>>: no such file)
    cacheFile,    \* game_ids_cache.json
    snapshot,     \* game_ids.json
    store,        \* table game_ids of game.db
    now,          \* the clock, in minutes
    adminId,      \* admin-id.txt
    refillCost,   \* apSettings.gardenRefillCost of system_settings.json
    pc,           \* where the process is in run_extraction ("idle": not running)
    mem,          \* final_data and cache in the memory of the running process
    tmpJson,      \* game_ids.json.tmp
    tmpCache,     \* game_ids_cache.json.tmp
    torn,         \* the paths at which a partially written file is visible
    log           \* what the running process has attempted to save, in order;
                  \* after a run that main's handler ended: the critical error

runvars == <<pc, mem, tmpJson, tmpCache, torn, log>>
vars == <<files, cacheFile, snapshot, store, now, adminId, refillCost,
          pc, mem, tmpJson, tmpCache, torn, log>>

----------------------------------------------------------------------------
(* Bounds of the model *)

MaxRecs == 3      \* records downloaded in all, over all files
MaxTicks == 2     \* clock steps
MaxFaultRecs == 2 \* records downloaded in all where the run is taken step by step

(* Program constants *)

RelevanceDays == 2
PruneDays == 1
DefaultRefillCost == 30

DayMinutes == 24 * 60
TickMinutes == 20 * 60
StartNow == 3 * DayMinutes + 20 * 60 + 30

Users == {"u1", "u2"}
Keys == {"aaaaaaaa", "bbbbbbbb"}
NoKey == "none"
NoAdmin == "none"
Admin == "adm"
RaisedRefillCost == DefaultRefillCost + 20

KeyRank(k) == CASE k = "aaaaaaaa" -> 1 [] k = "bbbbbbbb" -> 2 [] OTHER -> 0

BOARDS == <<"garden", "karesansui">>
Paths == {"garden/1.dat", "garden/2.dat", "karesansui/1.dat"}
DirOf(p) == IF p = "karesansui/1.dat" THEN "karesansui" ELSE "garden"

----------------------------------------------------------------------------
(* Ordered dicts *)

Has(m, k) == \E i \in 1..Len(m) : m[i][1] = k
IndexOf(m, k) == CHOOSE i \in 1..Len(m) : m[i][1] = k
Get(m, k) == m[IndexOf(m, k)][2]
Put(m, k, v) ==
    IF Has(m, k) THEN [m EXCEPT ![IndexOf(m, k)] = <<k, v>>]
    ELSE Append(m, <<k, v>>)
DictKeys(m) == {m[i][1] : i \in 1..Len(m)}
AsMap(m) == [k \in DictKeys(m) |-> Get(m, k)]

(* Counters *)

EmptyCounts == [p \in {} |-> 0]
CountAt(c, p) == IF p \in DOMAIN c THEN c[p] ELSE 0
MergeCounts(a, b) ==
    [p \in (DOMAIN a) \cup (DOMAIN b) |-> CountAt(a, p) + CountAt(b, p)]
Dates(c) == {p[1] : p \in DOMAIN c}

RECURSIVE SumOver(_, _)
SumOver(c, S) ==
    IF S = {} THEN 0
    ELSE LET p == CHOOSE q \in S : TRUE IN c[p] + SumOver(c, S \ {p})

RECURSIVE SetMax(_)
SetMax(S) ==
    LET x == CHOOSE y \in S : TRUE IN
    IF S = {x} THEN x
    ELSE LET m == SetMax(S \ {x}) IN IF x > m THEN x ELSE m

----------------------------------------------------------------------------
(* extract_from_file_v2 *)

(* The calendar of datetime: a date <<year, month, day>> and its ordinal   *)
Years == 2023..2025
IsLeap(y) == y % 4 = 0 /\ (y % 100 # 0 \/ y % 400 = 0)
DaysInMonth(y, m) ==
    IF m = 2 /\ IsLeap(y) THEN 29
    ELSE <<31, 28, 31, 30, 31, 30, 31, 31, 30, 31, 30, 31>>[m]
DaysBeforeYear(y) ==
    (y - 1) * 365 + ((y - 1) \div 4) - ((y - 1) \div 100) + ((y - 1) \div 400)
DaysBeforeMonth(y, m) ==
    <<0, 31, 59, 90, 120, 151, 181, 212, 243, 273, 304, 334>>[m]
      + (IF m > 2 /\ IsLeap(y) THEN 1 ELSE 0)

(* datetime.strptime(date_str, '%Y/%m/%d'), as the ordinal of the date *)
strptime(ds) == DaysBeforeYear(ds[1]) + DaysBeforeMonth(ds[1], ds[2]) + ds[3]

(* d_obj.strftime('%Y/%m/%d') of the date with ordinal n *)
strftime(n) ==
    LET y == CHOOSE yy \in Years :
                 DaysBeforeYear(yy) < n /\ n <= DaysBeforeYear(yy + 1)
        inYear == n - DaysBeforeYear(y)
        m == CHOOSE mm \in 1..12 :
                 /\ DaysBeforeMonth(y, mm) < inYear
                 /\ inYear <= DaysBeforeMonth(y, mm) + DaysInMonth(y, mm)
    IN <<y, m, inYear - DaysBeforeMonth(y, m)>>

EpochDate == <<2023, 12, 28>>
DateStr(n) == strftime(strptime(EpochDate) + n)
DayNumber(ds) == strptime(ds) - strptime(EpochDate)

(* NormHour as hour - 24 *)
NormHourMinus24(r) == IF r.hour >= 24 THEN r.hour - 24 ELSE r.hour

NormDate(r) ==
    IF r.hour >= 24
    THEN DayNumber(strftime(strptime(DateStr(r.day)) + (r.hour \div 24)))
    ELSE r.day
NormHour(r) == IF r.hour >= 24 THEN r.hour % 24 ELSE r.hour

TooOld(r, clock) ==
    (NormDate(r) * 24 + NormHour(r)) * 60 < clock - RelevanceDays * DayMinutes

FirstCandidate(r) == IF r.name # NoKey THEN r.name ELSE r.bkey

Hash(r) == <<r.day, r.hour, r.uid, r.bkey, r.to, r.amt>>

IsTrigger(r, admin, cost) ==
    /\ admin # NoAdmin
    /\ r.to = admin
    /\ r.amt >= cost

IncStat(stats, uid, d, h) ==
    Put(stats, uid,
        MergeCounts(IF Has(stats, uid) THEN Get(stats, uid) ELSE EmptyCounts,
                    <<d, h>> :> 1))

AddTrigger(trig, uid, t) ==
    LET old == IF Has(trig, uid) THEN Get(trig, uid) ELSE <<>> IN
    Put(trig, uid,
        IF \E i \in 1..Len(old) : old[i] = t THEN old ELSE Append(old, t))

BindFirst(g2u, gk, uid) ==
    IF Has(g2u, gk) THEN g2u ELSE Append(g2u, <<gk, uid>>)

EmptyResult == [game_to_user |-> <<>>, user_stats |-> <<>>, secret_triggers |-> <<>>]

ExtractLine(acc, r, clock, admin, cost) ==
    IF TooOld(r, clock) THEN acc
    ELSE
      [game_to_user |->
          IF FirstCandidate(r) # NoKey
          THEN BindFirst(acc.game_to_user, FirstCandidate(r), r.uid)
          ELSE acc.game_to_user,
       user_stats |-> IncStat(acc.user_stats, r.uid, NormDate(r), NormHour(r)),
       secret_triggers |->
          IF IsTrigger(r, admin, cost)
          THEN AddTrigger(acc.secret_triggers, r.uid, Hash(r))
          ELSE acc.secret_triggers]

RECURSIVE ExtractLines(_, _, _, _, _, _)
ExtractLines(recs, i, acc, clock, admin, cost) ==
    IF i > Len(recs) THEN acc
    ELSE ExtractLines(recs, i + 1, ExtractLine(acc, recs[i], clock, admin, cost),
                      clock, admin, cost)

extract_from_file_v2(recs, clock, admin, cost) ==
    ExtractLines(recs, 1, EmptyResult, clock, admin, cost)

----------------------------------------------------------------------------
(* Left fold of a sequence: the body of a for loop applied item by item *)

FoldSeq(Op(_, _), s, base) ==
    LET f[i \in 0..Len(s)] == IF i = 0 THEN base ELSE Op(f[i - 1], s[i])
    IN f[Len(s)]

Assign(f, k, v) == [x \in (DOMAIN f) \cup {k} |-> IF x = k THEN v ELSE f[x]]

AppendMissing(list, more) ==
    FoldSeq(LAMBDA acc, t :
                IF \E i \in 1..Len(acc) : acc[i] = t THEN acc ELSE Append(acc, t),
            more, list)

(* The three merges of a file's or a directory's result into an accumulator *)

MergeFirstWins(g2u, more) ==
    FoldSeq(LAMBDA acc, kv : BindFirst(acc, kv[1], kv[2]), more, g2u)

MergeOverwrite(g2u, more) ==
    FoldSeq(LAMBDA acc, kv : Put(acc, kv[1], kv[2]), more, g2u)

MergeStats(stats, more) ==
    FoldSeq(LAMBDA acc, kv :
                Put(acc, kv[1],
                    MergeCounts(IF Has(acc, kv[1]) THEN Get(acc, kv[1])
                                ELSE EmptyCounts, kv[2])),
            more, stats)

MergeTriggerLists(trig, more) ==
    FoldSeq(LAMBDA acc, kv :
                Put(acc, kv[1],
                    AppendMissing(IF Has(acc, kv[1]) THEN Get(acc, kv[1]) ELSE <<>>,
                                  kv[2])),
            more, trig)

----------------------------------------------------------------------------
(* process_directory *)

(* os.stat: every download rewrites the file, so the modification time is  *)
(* the number of writes the file has had; the size grows with the records. *)
FileMtime(recs) == Len(recs)
FileSize(recs) == Len(recs)

CacheHit(cache, p, recs) ==
    /\ p \in DOMAIN cache
    /\ cache[p].mtime = FileMtime(recs)
    /\ cache[p].size = FileSize(recs)

(* What fails in a run: os.stat of a file, the reading of a file, the      *)
(* listing of a board's directory                                          *)
NoFaults == [stat |-> {}, read |-> {}, list |-> {}]

(* One file of the loop.  os.stat raising is caught by the loop's except   *)
(* and the file is passed over; a file that cannot be read parses to the   *)
(* empty result, which is cached and merged like any other.                *)
(* The file's result res (from the cache on a hit, parsed otherwise) is   *)
(* cached on a miss and merged into the directory's accumulators          *)
MergeFile(acc, p, recs, hit, res) ==
    [game_to_user |-> MergeFirstWins(acc.game_to_user, res.game_to_user),
     user_stats |-> MergeStats(acc.user_stats, res.user_stats),
     secret_triggers |-> MergeTriggerLists(acc.secret_triggers, res.secret_triggers),
     cache |-> IF hit THEN acc.cache
               ELSE Assign(acc.cache, p,
                           [mtime |-> FileMtime(recs), size |-> FileSize(recs),
                            data |-> res])]

ProcessFile(acc, p, recs, clock, admin, cost, faults) ==
    IF p \in faults.stat THEN acc
    ELSE MergeFile(acc, p, recs, CacheHit(acc.cache, p, recs),
                   IF CacheHit(acc.cache, p, recs) THEN acc.cache[p].data
                   ELSE IF p \in faults.read THEN EmptyResult
                   ELSE extract_from_file_v2(recs, clock, admin, cost))

process_directory(order, fs, cache, clock, admin, cost, faults) ==
    FoldSeq(LAMBDA acc, p : ProcessFile(acc, p, fs[p], clock, admin, cost, faults),
            order,
            [game_to_user |-> <<>>, user_stats |-> <<>>, secret_triggers |-> <<>>,
             cache |-> cache])

----------------------------------------------------------------------------
(* run_extraction *)

NoCache == [p \in {} |-> 0]

(* Load Cache: a missing or unparseable file is the empty cache *)
LoadCache(cf) == IF cf.ok THEN cf.map ELSE NoCache

(* SCAN: the directories in BOARDS order, each in the order it is listed.  *)
(* os.listdir raising is caught nowhere in process_directory or in the     *)
(* loop: the exception leaves run_extraction (raised).                     *)
(* A directory's result r merged into the run's accumulators; the cache   *)
(* is the one process_directory updated in place                          *)
MergeDirectory(acc, r) ==
    [game_to_user |-> MergeOverwrite(acc.game_to_user, r.game_to_user),
     user_stats |-> MergeStats(acc.user_stats, r.user_stats),
     secret_triggers |-> MergeTriggerLists(acc.secret_triggers, r.secret_triggers),
     cache |-> r.cache,
     raised |-> FALSE]

Scan(listing, fs, cache, clock, admin, cost, faults) ==
    FoldSeq(LAMBDA acc, d :
                IF acc.raised THEN acc
                ELSE IF d \in faults.list THEN [acc EXCEPT !.raised = TRUE]
                ELSE MergeDirectory(acc,
                                    process_directory(listing[d], fs, acc.cache, clock,
                                                      admin, cost, faults)),
            BOARDS,
            [game_to_user |-> <<>>, user_stats |-> <<>>, secret_triggers |-> <<>>,
             cache |-> cache, raised |-> FALSE])

(* ResolveMapping with the scan's pairs first and the existing entries     *)
(* written over them                                                       *)
ResolveMappingExistingLast(existing, g2u) ==
    LET fromScan ==
            FoldSeq(LAMBDA acc, kv : Assign(acc, kv[2], kv[1]),
                    g2u, [u \in {} |-> NoKey])
    IN FoldSeq(LAMBDA acc, kv : Assign(acc, kv[2].id, kv[1]), existing, fromScan)

(* Resolve Mapping UID <-> GK: the existing entries, then the scan's pairs *)
ResolveMapping(existing, g2u) ==
    LET fromExisting ==
            FoldSeq(LAMBDA acc, kv : Assign(acc, kv[2].id, kv[1]),
                    existing, [u \in {} |-> NoKey])
    IN FoldSeq(LAMBDA acc, kv : Assign(acc, kv[2], kv[1]), g2u, fromExisting)

NewEntry(uid) == [id |-> uid, counts |-> EmptyCounts, secretTriggers |-> <<>>]

(* FoldUser without the clearing of a key's counts on its first touch *)
FoldUserAccumulating(acc, uid, dates, u2g) ==
    IF uid \notin DOMAIN u2g THEN acc
    ELSE
      LET gk == u2g[uid]
          f1 == IF Has(acc.final, gk) THEN acc.final
                ELSE Append(acc.final, <<gk, [id |-> uid, counts |-> EmptyCounts,
                                              secretTriggers |-> <<>>]>>)
          e1 == Get(f1, gk)
      IN [final |-> Put(f1, gk, [e1 EXCEPT !.counts = MergeCounts(@, dates)]),
          updated |-> acc.updated \cup {gk}]

(* Build Final Data: one user's stats folded into the key it resolves to *)
FoldUser(acc, uid, dates, u2g) ==
    IF uid \notin DOMAIN u2g THEN acc
    ELSE
      LET gk == u2g[uid]
          f1 == IF Has(acc.final, gk) THEN acc.final
                ELSE Append(acc.final, <<gk, NewEntry(uid)>>)
          e1 == Get(f1, gk)
          base == IF gk \in acc.updated THEN e1.counts ELSE EmptyCounts
      IN [final |-> Put(f1, gk, [e1 EXCEPT !.counts = MergeCounts(base, dates)]),
          updated |-> acc.updated \cup {gk}]

BuildFinal(existing, u2g, stats) ==
    FoldSeq(LAMBDA acc, kv : FoldUser(acc, kv[1], kv[2], u2g),
            stats, [final |-> existing, updated |-> {}])

(* MergeTriggers without the test for a hash already present *)
MergeTriggersAppending(final, trig) ==
    [i \in 1..Len(final) |->
        LET e == final[i][2] IN
        <<final[i][1],
          IF Has(trig, e.id)
          THEN [e EXCEPT !.secretTriggers = @ \o Get(trig, e.id)]
          ELSE e>>]

(* Merge Triggers *)
MergeTriggers(final, trig) ==
    [i \in 1..Len(final) |->
        LET e == final[i][2] IN
        <<final[i][1],
          IF Has(trig, e.id)
          THEN [e EXCEPT !.secretTriggers = AppendMissing(@, Get(trig, e.id))]
          ELSE e>>]

(* Prune Old *)
CutoffDate(clock) == (clock - PruneDays * DayMinutes) \div DayMinutes

(* PruneCounts with the cutoff a day too early *)
PruneCountsDayEarly(c, cutoff) ==
    [p \in {q \in DOMAIN c : ~(q[1] < cutoff - 1)} |-> c[p]]

PruneCounts(c, cutoff) == [p \in {q \in DOMAIN c : ~(q[1] < cutoff)} |-> c[p]]

PruneOld(final, cutoff) ==
    LET cut == [i \in 1..Len(final) |->
                   <<final[i][1],
                     [final[i][2] EXCEPT !.counts = PruneCounts(@, cutoff)]>>]
    IN SelectSeq(cut, LAMBDA kv : DOMAIN kv[2].counts # {})

(* Deduplicate (Keep latest active key for UID) *)
LastDate(c) == IF DOMAIN c = {} THEN 0 - 1 ELSE SetMax(Dates(c))
TotalOn(c, d) == SumOver(c, {p \in DOMAIN c : p[1] = d})

KeyStat(gk, e) ==
    [gk |-> gk, last |-> LastDate(e.counts), cnt |-> TotalOn(e.counts, LastDate(e.counts))]

(* SortsBefore with the sort key x["last"] alone *)
SortsBeforeByDate(a, b) == a.last > b.last

(* a comes before b when sorted by (last, cnt, gk) with reverse=True *)
SortsBefore(a, b) ==
    \/ a.last > b.last
    \/ a.last = b.last /\ a.cnt > b.cnt
    \/ a.last = b.last /\ a.cnt = b.cnt /\ KeyRank(a.gk) > KeyRank(b.gk)

(* SortDesc without reverse=True *)
SortAscending(s) ==
    FoldSeq(LAMBDA acc, x :
                LET n == Cardinality({i \in 1..Len(acc) : SortsBefore(x, acc[i])})
                IN SubSeq(acc, 1, n) \o <<x>> \o SubSeq(acc, n + 1, Len(acc)),
            s, <<>>)

SortDesc(s) ==
    FoldSeq(LAMBDA acc, x :
                LET n == Cardinality({i \in 1..Len(acc) : SortsBefore(acc[i], x)})
                IN SubSeq(acc, 1, n) \o <<x>> \o SubSeq(acc, n + 1, Len(acc)),
            s, <<>>)

KeyStatsOf(final, uid) ==
    FoldSeq(LAMBDA acc, kv :
                IF kv[2].id = uid THEN Append(acc, KeyStat(kv[1], kv[2])) ELSE acc,
            final, <<>>)

(* Deduplicate with the group test len(gks) > 2 *)
DeduplicateOverTwo(final) ==
    SelectSeq(final,
              LAMBDA kv :
                  LET ks == KeyStatsOf(final, kv[2].id)
                  IN Len(ks) > 2 => SortDesc(ks)[1].gk = kv[1])

Deduplicate(final) ==
    SelectSeq(final,
              LAMBDA kv :
                  LET ks == KeyStatsOf(final, kv[2].id)
                  IN Len(ks) > 1 => SortDesc(ks)[1].gk = kv[1])

(* Save Data: INSERT OR REPLACE of every key of final_data *)
Upsert(table, final) ==
    [k \in (DOMAIN table) \cup DictKeys(final) |->
        IF Has(final, k) THEN Get(final, k) ELSE table[k]]

(* The stages of one run up to the saving, from the state it starts in.    *)
(* raised: an exception left run_extraction during the scan, and nothing   *)
(* after the scan was done.                                                *)
(* The stages after the scan, each on the values of the ones before it:   *)
(* Scanned resolves the mapping, Resolved builds the final data, Built     *)
(* merges the triggers and prunes, Outcome deduplicates.                   *)
Outcome(scan, uid_to_gk, built, pruned) ==
    [raised |-> FALSE,
     scan |-> scan,
     uid_to_gk |-> uid_to_gk,
     built |-> built.final,
     updated_gks |-> built.updated,
     pruned |-> pruned,
     final_data |-> Deduplicate(pruned)]

Built(scan, uid_to_gk, built, clock) ==
    Outcome(scan, uid_to_gk, built,
            PruneOld(MergeTriggers(built.final, scan.secret_triggers),
                     CutoffDate(clock)))

Resolved(scan, uid_to_gk, existing, clock) ==
    Built(scan, uid_to_gk, BuildFinal(existing, uid_to_gk, scan.user_stats), clock)

Scanned(scan, existing, clock) ==
    IF scan.raised THEN [raised |-> TRUE, scan |-> scan]
    ELSE Resolved(scan, ResolveMapping(existing, scan.game_to_user), existing, clock)

run_extraction(listing, fs, cf, existing, clock, admin, cost, faults) ==
    Scanned(Scan(listing, fs, LoadCache(cf), clock, admin, cost, faults),
            existing, clock)

----------------------------------------------------------------------------
(* What the clock and the boards feed the program *)

Today(clock) == clock \div DayMinutes
HourNow(clock) == (clock % DayMinutes) \div 60

(* A post made `back` days ago at this hour; late: written in the         *)
(* late-night convention, as hour 24 and more of the day before.           *)
Post(clock, uid, name, bkey, to, amt, back, late) ==
    [uid |-> uid, name |-> name, bkey |-> bkey, to |-> to, amt |-> amt,
     day |-> IF late THEN Today(clock) - back - 1 ELSE Today(clock) - back,
     hour |-> IF late THEN HourNow(clock) + 24 ELSE HourNow(clock)]

StatPool(clock) ==
    {Post(clock, "u1", "aaaaaaaa", NoKey, NoAdmin, 0, 1, TRUE),
     Post(clock, "u1", "bbbbbbbb", NoKey, NoAdmin, 0, 0, FALSE),
     Post(clock, "u2", NoKey, "aaaaaaaa", NoAdmin, 0, 0, FALSE),
     Post(clock, "u1", NoKey, NoKey, NoAdmin, 0, 0, FALSE)}

TriggerPool(clock) ==
    {Post(clock, "u1", "aaaaaaaa", NoKey, Admin, DefaultRefillCost - 1, 0, FALSE),
     Post(clock, "u1", "aaaaaaaa", NoKey, Admin, DefaultRefillCost, 0, FALSE),
     Post(clock, "u1", NoKey, NoKey, Admin, RaisedRefillCost, 0, FALSE)}

Existing(fs, d) == {p \in Paths : DirOf(p) = d /\ fs[p] # <<>>}

Perms(S) == {s \in [1..Cardinality(S) -> S] : \A i, j \in DOMAIN s : s[i] = s[j] => i = j}

(* os.listdir of each board's directory: the files there, in any order *)
Listings(fs) ==
    {[d \in {BOARDS[i] : i \in DOMAIN BOARDS} |-> IF d = "garden" THEN g ELSE k] :
        g \in Perms(Existing(fs, "garden")), k \in Perms(Existing(fs, "karesansui"))}

----------------------------------------------------------------------------
(* The state machine *)

NoMem == [final_data |-> <<>>, cache |-> NoCache]
NoFile == [exists |-> FALSE, whole |-> FALSE, data |-> <<>>]

(* A file that is open for writing or was left before its text was         *)
(* complete: whole is FALSE, data is what a reader can take from it, none  *)
PartFile(nothing) == [exists |-> TRUE, whole |-> FALSE, data |-> nothing]

(* no process, no temporary file left behind *)
NotRunning ==
    /\ pc = "idle"
    /\ mem = NoMem
    /\ tmpJson = NoFile
    /\ tmpCache = NoFile
    /\ torn = {}
    /\ log = <<>>

Init ==
    /\ files = [p \in Paths |-> <<>>]
    /\ cacheFile = [ok |-> FALSE, map |-> NoCache]
    /\ snapshot = <<>>
    /\ store = [k \in {} |-> 0]
    /\ now = StartNow
    /\ adminId = Admin
    /\ refillCost = DefaultRefillCost
    /\ NotRunning

InitTrigger ==
    /\ files = [p \in Paths |-> <<>>]
    /\ cacheFile = [ok |-> FALSE, map |-> NoCache]
    /\ snapshot = <<>>
    /\ store = [k \in {} |-> 0]
    /\ now = StartNow
    /\ adminId \in {NoAdmin, Admin}
    /\ refillCost = DefaultRefillCost
    /\ NotRunning

(* sync_board: a thread's .dat is downloaded anew with one more post.  The *)
(* two garden files are interchangeable (a run lists them in any order),   *)
(* so the second is taken to appear after the first.                       *)
Download(pool) ==
    \E p \in Paths, r \in pool :
        /\ Len(files["garden/1.dat"]) + Len(files["garden/2.dat"])
             + Len(files["karesansui/1.dat"]) < MaxRecs
        /\ p = "garden/2.dat" => files["garden/1.dat"] # <<>>
        /\ files' = [files EXCEPT ![p] = Append(@, r)]
        /\ UNCHANGED <<cacheFile, snapshot, store, now, adminId, refillCost>>
        /\ UNCHANGED runvars

DownloadPosts == Download(StatPool(now))
DownloadTriggers == Download(TriggerPool(now))

Tick ==
    /\ now < StartNow + MaxTicks * TickMinutes
    /\ now' = now + TickMinutes
    /\ UNCHANGED <<files, cacheFile, snapshot, store, adminId, refillCost>>
    /\ UNCHANGED runvars

(* system_settings.json is edited *)
SetRefillCost ==
    /\ refillCost' = IF refillCost = DefaultRefillCost THEN RaisedRefillCost
                     ELSE DefaultRefillCost
    /\ UNCHANGED <<files, cacheFile, snapshot, store, now, adminId>>
    /\ UNCHANGED runvars

(* run_extraction from start to end, with nothing failing: the table, the  *)
(* snapshot and the cache are written and the temporary files renamed away *)
Run ==
    \E listing \in Listings(files) :
        LET r == run_extraction(listing, files, cacheFile, snapshot, now,
                                adminId, refillCost, NoFaults)
        IN /\ pc = "idle"
           /\ store' = Upsert(store, r.final_data)
           /\ snapshot' = r.final_data
           /\ cacheFile' = [ok |-> TRUE, map |-> r.scan.cache]
           /\ UNCHANGED <<files, now, adminId, refillCost>>
           /\ UNCHANGED runvars

----------------------------------------------------------------------------
(* run_extraction step by step, with what can fail failing                 *)

FaultPool(clock) ==
    {Post(clock, "u1", "aaaaaaaa", NoKey, NoAdmin, 0, 0, FALSE),
     Post(clock, "u2", NoKey, "bbbbbbbb", NoAdmin, 0, 0, FALSE)}

DownloadFew ==
    /\ Len(files["garden/1.dat"]) + Len(files["garden/2.dat"])
         + Len(files["karesansui/1.dat"]) < MaxFaultRecs
    /\ Download(FaultPool(now))

Listed(listing) ==
    {p \in Paths : \E j \in 1..Len(listing[DirOf(p)]) : listing[DirOf(p)][j] = p}

(* nothing fails, or one thing on the input side does *)
InputFaults(listing) ==
    {NoFaults}
      \cup {[NoFaults EXCEPT !.stat = {p}] : p \in Listed(listing)}
      \cup {[NoFaults EXCEPT !.read = {p}] : p \in Listed(listing)}
      \cup {[NoFaults EXCEPT !.list = {d}] : d \in {BOARDS[i] : i \in DOMAIN BOARDS}}

Attempt(target, ok) == [target |-> target, ok |-> ok]

(* The process starts, loads, scans and reconciles.  An exception that     *)
(* leaves run_extraction is caught in main, which prints the critical      *)
(* error and ends the process.                                             *)
Begin(inputs) ==
    \E listing \in Listings(files) :
      \E faults \in (IF inputs THEN InputFaults(listing) ELSE {NoFaults}) :
        LET r == run_extraction(listing, files, cacheFile, snapshot, now,
                                adminId, refillCost, faults)
        IN /\ pc = "idle"
           /\ IF r.raised
              THEN /\ log' = <<Attempt("critical", FALSE)>>
                   /\ UNCHANGED <<pc, mem>>
              ELSE /\ log' = <<>>
                   /\ mem' = [final_data |-> r.final_data, cache |-> r.scan.cache]
                   /\ pc' = "store"
           /\ UNCHANGED <<files, cacheFile, snapshot, store, now, adminId, refillCost,
                          tmpJson, tmpCache, torn>>

(* SaveStore with the exception of a failed write not caught *)
SaveStoreUncaught(outcomes) ==
    \E ok \in outcomes :
        /\ pc = "store"
        /\ store' = IF ok THEN Upsert(store, mem.final_data) ELSE store
        /\ log' = IF ok THEN Append(log, Attempt("store", ok))
                  ELSE log \o <<Attempt("store", ok), Attempt("critical", FALSE)>>
        /\ pc' = IF ok THEN "json_open" ELSE "idle"
        /\ mem' = IF ok THEN mem ELSE NoMem
        /\ UNCHANGED <<files, cacheFile, snapshot, now, adminId, refillCost,
                       tmpJson, tmpCache, torn>>

(* Save Data, SQLite: one transaction, committed or not at all; a failure  *)
(* is caught and printed                                                   *)
SaveStore(outcomes) ==
    \E ok \in outcomes :
        /\ pc = "store"
        /\ store' = IF ok THEN Upsert(store, mem.final_data) ELSE store
        /\ log' = Append(log, Attempt("store", ok))
        /\ pc' = "json_open"
        /\ UNCHANGED <<files, cacheFile, snapshot, now, adminId, refillCost,
                       mem, tmpJson, tmpCache, torn>>

(* open(tmp_json, 'w'): the temporary file is created or truncated *)
OpenTmpJson(outcomes) ==
    \E ok \in outcomes :
        /\ pc = "json_open"
        /\ IF ok
           THEN /\ tmpJson' = PartFile(<<>>)
                /\ pc' = "json_dump"
                /\ UNCHANGED log
           ELSE /\ log' = Append(log, Attempt("snapshot", FALSE))
                /\ pc' = "cache_open"
                /\ UNCHANGED tmpJson
        /\ UNCHANGED <<files, cacheFile, snapshot, store, now, adminId, refillCost,
                       mem, tmpCache, torn>>

(* DumpJson with the rename done whether or not the dump was completed *)
DumpJsonRenameAlways(outcomes) ==
    \E ok \in outcomes :
        /\ pc = "json_dump"
        /\ tmpJson' = IF ok
                      THEN [exists |-> TRUE, whole |-> TRUE, data |-> mem.final_data]
                      ELSE PartFile(<<>>)
        /\ pc' = "json_replace"
        /\ UNCHANGED <<files, cacheFile, snapshot, store, now, adminId, refillCost,
                       mem, tmpCache, torn, log>>

(* json.dump into the temporary file and its closing; a failure leaves a   *)
(* part of the text in the temporary file                                  *)
DumpJson(outcomes) ==
    \E ok \in outcomes :
        /\ pc = "json_dump"
        /\ IF ok
           THEN /\ tmpJson' = [exists |-> TRUE, whole |-> TRUE, data |-> mem.final_data]
                /\ pc' = "json_replace"
                /\ UNCHANGED log
           ELSE /\ tmpJson' = PartFile(<<>>)
                /\ log' = Append(log, Attempt("snapshot", FALSE))
                /\ pc' = "cache_open"
        /\ UNCHANGED <<files, cacheFile, snapshot, store, now, adminId, refillCost,
                       mem, tmpCache, torn>>

(* os.replace(tmp_json, game_ids_json) *)
ReplaceJson(outcomes) ==
    \E ok \in outcomes :
        /\ pc = "json_replace"
        /\ IF ok
           THEN /\ snapshot' = tmpJson.data
                /\ torn' = IF tmpJson.whole THEN torn \ {"game_ids.json"}
                           ELSE torn \cup {"game_ids.json"}
                /\ tmpJson' = NoFile
           ELSE UNCHANGED <<snapshot, torn, tmpJson>>
        /\ log' = Append(log, Attempt("snapshot", ok))
        /\ pc' = "cache_open"
        /\ UNCHANGED <<files, cacheFile, store, now, adminId, refillCost, mem, tmpCache>>

(* Save Cache: open(tmp_cache, 'w') *)
OpenTmpCache(outcomes) ==
    \E ok \in outcomes :
        /\ pc = "cache_open"
        /\ IF ok
           THEN /\ tmpCache' = PartFile(NoCache)
                /\ pc' = "cache_dump"
                /\ UNCHANGED <<log, mem>>
           ELSE /\ log' = <<>>
                /\ pc' = "idle"
                /\ mem' = NoMem
                /\ UNCHANGED tmpCache
        /\ UNCHANGED <<files, cacheFile, snapshot, store, now, adminId, refillCost,
                       tmpJson, torn>>

(* json.dump of the cache into the temporary file and its closing *)
DumpCache(outcomes) ==
    \E ok \in outcomes :
        /\ pc = "cache_dump"
        /\ IF ok
           THEN /\ tmpCache' = [exists |-> TRUE, whole |-> TRUE, data |-> mem.cache]
                /\ pc' = "cache_replace"
                /\ UNCHANGED <<log, mem>>
           ELSE /\ tmpCache' = PartFile(NoCache)
                /\ log' = <<>>
                /\ pc' = "idle"
                /\ mem' = NoMem
        /\ UNCHANGED <<files, cacheFile, snapshot, store, now, adminId, refillCost,
                       tmpJson, torn>>

(* os.replace(tmp_cache, cache_file); run_extraction returns *)
ReplaceCache(outcomes) ==
    \E ok \in outcomes :
        /\ pc = "cache_replace"
        /\ IF ok
           THEN /\ cacheFile' = [ok |-> tmpCache.whole, map |-> tmpCache.data]
                /\ torn' = IF tmpCache.whole THEN torn \ {"game_ids_cache.json"}
                           ELSE torn \cup {"game_ids_cache.json"}
                /\ tmpCache' = NoFile
           ELSE UNCHANGED <<cacheFile, torn, tmpCache>>
        /\ log' = <<>>
        /\ pc' = "idle"
        /\ mem' = NoMem
        /\ UNCHANGED <<files, snapshot, store, now, adminId, refillCost, tmpJson>>

(* The process is killed or the machine stops: the memory is gone, the     *)
(* files stay as they are.                                                 *)
Kill ==
    /\ pc # "idle"
    /\ pc' = "idle"
    /\ mem' = NoMem
    /\ log' = <<>>
    /\ UNCHANGED <<files, cacheFile, snapshot, store, now, adminId, refillCost,
                   tmpJson, tmpCache, torn>>

(* A board with one post of any raw hour, on a day up to NormBack days     *)
(* before the run's day, the run's day at the end of a year, of a February *)
(* with and without the 29th, or of a month of 30 days                     *)
NormBack == 4
MaxRawHour == 99
NormClocks ==
    {DayNumber(d) * DayMinutes + 20 * 60 + 30 :
        d \in {<<2023, 12, 31>>, <<2024, 2, 28>>, <<2025, 2, 28>>, <<2024, 4, 30>>}}

InitNorm ==
    /\ now \in NormClocks
    /\ \E d \in (Today(now) - NormBack)..Today(now), h \in 0..MaxRawHour :
           files = [p \in Paths |->
                       IF p = "garden/1.dat"
                       THEN <<[uid |-> "u1", name |-> "aaaaaaaa", bkey |-> NoKey,
                               to |-> NoAdmin, amt |-> 0, day |-> d, hour |-> h]>>
                       ELSE <<>>]
    /\ cacheFile = [ok |-> FALSE, map |-> NoCache]
    /\ snapshot = <<>>
    /\ store = [k \in {} |-> 0]
    /\ adminId = Admin
    /\ refillCost = DefaultRefillCost
    /\ NotRunning

Next == DownloadPosts \/ Tick \/ Run
NextNorm == Run

(* a failure on the input side, the saving going well *)
NextFault ==
    \/ DownloadFew
    \/ Begin(TRUE)
    \/ SaveStore({TRUE})
    \/ OpenTmpJson({TRUE})
    \/ DumpJson({TRUE})
    \/ ReplaceJson({TRUE})
    \/ OpenTmpCache({TRUE})
    \/ DumpCache({TRUE})
    \/ ReplaceCache({TRUE})

(* the input side going well, any step of the saving failing, the process  *)
(* killed at any step                                                      *)
NextWrite ==
    \/ DownloadFew
    \/ Begin(FALSE)
    \/ SaveStore(BOOLEAN)
    \/ OpenTmpJson(BOOLEAN)
    \/ DumpJson(BOOLEAN)
    \/ ReplaceJson(BOOLEAN)
    \/ OpenTmpCache(BOOLEAN)
    \/ DumpCache(BOOLEAN)
    \/ ReplaceCache(BOOLEAN)
    \/ Kill
NextTrigger == DownloadTriggers \/ SetRefillCost \/ Run

Spec == Init /\ [][Next]_vars
SpecTrigger == InitTrigger /\ [][NextTrigger]_vars
SpecFault == Init /\ [][NextFault]_vars
SpecWrite == Init /\ [][NextWrite]_vars
SpecNorm == InitNorm /\ [][NextNorm]_vars

----------------------------------------------------------------------------
(* Vocabulary of the properties *)

(* A run started in the current state, with the directories listed as in l *)
RunFrom(l) ==
    run_extraction(l, files, cacheFile, snapshot, now, adminId, refillCost, NoFaults)

(* The same run with game_ids_cache.json lost or unparseable *)
RunWithoutCache(l) ==
    run_extraction(l, files, [ok |-> FALSE, map |-> NoCache], snapshot, now,
                   adminId, refillCost, NoFaults)

(* The run that follows RunFrom(l): same files, listing and clock, the     *)
(* state and the cache as that run left them                               *)
RunAgain(l) ==
    run_extraction(l, files, [ok |-> TRUE, map |-> RunFrom(l).scan.cache],
                   RunFrom(l).final_data, now, adminId, refillCost, NoFaults)

EntriesOf(final, uid) == {i \in 1..Len(final) : final[i][2].id = uid}

(* The records of the listed files, as <<path, line>> places *)
Places(l) ==
    {<<p, i>> \in Paths \X (1..MaxRecs + 1) :
        /\ \E j \in 1..Len(l[DirOf(p)]) : l[DirOf(p)][j] = p
        /\ i <= Len(files[p])}
RecordAt(pl) == files[pl[1]][pl[2]]
Qualifies(r) == ~TooOld(r, now)

(* C1: after a run, from any state earlier runs can leave, no user id is   *)
(* the id of two entries of the final state.                               *)
C1_OneKeyPerUser ==
    /\ \A u \in Users : Cardinality(EntriesOf(snapshot, u)) <= 1
    /\ \A l \in Listings(files) :
           LET r == RunFrom(l) IN
           \A u \in Users : Cardinality(EntriesOf(r.final_data, u)) <= 1

(* a run in which the deduplication has an entry to remove *)
C1_Witness ==
    \E l \in Listings(files) :
        LET r == RunFrom(l) IN
        \E u \in Users :
            /\ Cardinality(EntriesOf(r.pruned, u)) > 1
            /\ Cardinality(EntriesOf(r.final_data, u)) = 1

(* C2: the cache is advisory: a run gives the same final state whether it  *)
(* starts with the cache earlier runs left or with none.                   *)
C2_CacheAdvisory ==
    \A l \in Listings(files) :
        AsMap(RunFrom(l).final_data) = AsMap(RunWithoutCache(l).final_data)

(* C3: a record older than 2 days at the time of the run adds nothing to   *)
(* the scan's stats and binds no key, also when the file's result is       *)
(* taken from the cache.                                                   *)
C3_NoStaleRecord ==
    \A l \in Listings(files) :
        LET scan == RunFrom(l).scan IN
        /\ \A i \in 1..Len(scan.user_stats) :
               \A dh \in DOMAIN scan.user_stats[i][2] :
                   \E pl \in Places(l) :
                       /\ Qualifies(RecordAt(pl))
                       /\ RecordAt(pl).uid = scan.user_stats[i][1]
                       /\ <<NormDate(RecordAt(pl)), NormHour(RecordAt(pl))>> = dh
        /\ \A i \in 1..Len(scan.game_to_user) :
               \E pl \in Places(l) :
                   /\ Qualifies(RecordAt(pl))
                   /\ RecordAt(pl).uid = scan.game_to_user[i][2]
                   /\ FirstCandidate(RecordAt(pl)) = scan.game_to_user[i][1]

(* C4: a second run over the same files, in the same listing order, at the *)
(* same clock and with the first run's cache leaves the final state of the *)
(* first run unchanged.                                                    *)
C4_Idempotent ==
    \A l \in Listings(files) :
        AsMap(RunAgain(l).final_data) = AsMap(RunFrom(l).final_data)

(* The counts the entries carry, whatever their keys and ids: each counts  *)
(* map with the number of entries that hold it                             *)
CountsCarried(final) ==
    [c \in {final[i][2].counts : i \in 1..Len(final)} |->
        Cardinality({i \in 1..Len(final) : final[i][2].counts = c})]

(* C5: the counts of the final state are the same for any two orders in    *)
(* which the files of a directory are listed.                              *)
C5_OrderIndependent ==
    \A l1, l2 \in Listings(files) :
        CountsCarried(RunFrom(l1).final_data) = CountsCarried(RunFrom(l2).final_data)

(* The scan of run r binds two different keys to user u, in two different  *)
(* files of the listing l                                                  *)
BindsTwoKeys(l, r, u) ==
    \E ka, kb \in Keys :
        /\ ka # kb
        /\ \E i, j \in 1..Len(r.scan.game_to_user) :
               /\ r.scan.game_to_user[i] = <<ka, u>>
               /\ r.scan.game_to_user[j] = <<kb, u>>
        /\ \E pa, pb \in Places(l) :
               /\ pa[1] # pb[1]
               /\ RecordAt(pa).uid = u /\ FirstCandidate(RecordAt(pa)) = ka
               /\ RecordAt(pb).uid = u /\ FirstCandidate(RecordAt(pb)) = kb

(* entry i of final is the greatest of u's entries left after pruning *)
IsGreatestOf(final, i, pruned, u) ==
    /\ \E j \in EntriesOf(pruned, u) : pruned[j] = final[i]
    /\ \A j \in EntriesOf(pruned, u) :
           pruned[j][1] # final[i][1] =>
               SortsBefore(KeyStat(final[i][1], final[i][2]),
                           KeyStat(pruned[j][1], pruned[j][2]))

(* C6 as stated: when the scan binds two keys to user U in two files,      *)
(* exactly one entry of U survives the run, the greatest under (latest     *)
(* date, total on that date, key).                                         *)
C6_ExactlyOneSurvivor ==
    \A l \in Listings(files) : \A u \in Users :
        LET r == RunFrom(l) IN
        BindsTwoKeys(l, r, u) =>
            /\ Cardinality(EntriesOf(r.final_data, u)) = 1
            /\ \A i \in EntriesOf(r.final_data, u) :
                   IsGreatestOf(r.final_data, i, r.pruned, u)

(* C6 amended: when the scan binds two keys to user U in two files, at     *)
(* most one entry of U survives the run, none exactly when pruning leaves  *)
(* U no entry, and a survivor is the greatest under (latest date, total on *)
(* that date, key) of U's entries left after pruning.                      *)
C6_AtMostOneSurvivor ==
    \A l \in Listings(files) : \A u \in Users :
        LET r == RunFrom(l) IN
        BindsTwoKeys(l, r, u) =>
            /\ Cardinality(EntriesOf(r.final_data, u)) <= 1
            /\ (EntriesOf(r.final_data, u) = {}) <=> (EntriesOf(r.pruned, u) = {})
            /\ \A i \in EntriesOf(r.final_data, u) :
                   IsGreatestOf(r.final_data, i, r.pruned, u)

(* two entries of U are left after pruning and the one kept is not the key *)
(* the scan bound last                                                     *)
C6_Witness ==
    \E l \in Listings(files) : \E u \in Users :
        LET r == RunFrom(l) IN
        /\ BindsTwoKeys(l, r, u)
        /\ Cardinality(EntriesOf(r.pruned, u)) = 2
        /\ \E i \in EntriesOf(r.final_data, u) : r.final_data[i][1] # r.uid_to_gk[u]

(* C7: after a run every date of every surviving entry is on or after the  *)
(* day before the run's day, and no surviving entry has empty counts.      *)
C7_RetainedDates ==
    \A l \in Listings(files) :
        LET final == RunFrom(l).final_data IN
        \A i \in 1..Len(final) :
            /\ DOMAIN final[i][2].counts # {}
            /\ \A d \in Dates(final[i][2].counts) : d >= Today(now) - 1

(* a run that keeps a date on the cutoff day and drops an older one *)
C7_Witness ==
    \E l \in Listings(files) :
        LET r == RunFrom(l) IN
        /\ \E i \in 1..Len(r.final_data) :
               Today(now) - 1 \in Dates(r.final_data[i][2].counts)
        /\ \E i \in 1..Len(r.built) :
               \E d \in Dates(r.built[i][2].counts) : d < Today(now) - 1

RECURSIVE ScanCountAt(_, _, _)
ScanCountAt(stats, S, dh) ==
    IF S = {} THEN 0
    ELSE LET i == CHOOSE j \in S : TRUE
         IN CountAt(stats[i][2], dh) + ScanCountAt(stats, S \ {i}, dh)

(* the users of the scan that the run routes to key gk *)
RoutedTo(r, gk) ==
    {i \in 1..Len(r.scan.user_stats) :
        /\ r.scan.user_stats[i][1] \in DOMAIN r.uid_to_gk
        /\ r.uid_to_gk[r.scan.user_stats[i][1]] = gk}

QualifyingAt(l, uids, dh) ==
    Cardinality({pl \in Places(l) :
                    /\ Qualifies(RecordAt(pl))
                    /\ RecordAt(pl).uid \in uids
                    /\ <<NormDate(RecordAt(pl)), NormHour(RecordAt(pl))>> = dh})

(* C8: the counts of a key that receives stats in a run are, after count   *)
(* folding, exactly the scan's counts of the users routed to it, whatever  *)
(* the key held before; in the final state they are the numbers of         *)
(* qualifying records of those users.                                      *)
C8_CountsRecomputed ==
    \A l \in Listings(files) :
        LET r == RunFrom(l) IN
        /\ \A i \in 1..Len(r.scan.user_stats) :
               r.scan.user_stats[i][1] \in DOMAIN r.uid_to_gk =>
                   r.uid_to_gk[r.scan.user_stats[i][1]] \in r.updated_gks
        /\ \A gk \in r.updated_gks :
               LET c == Get(r.built, gk).counts IN
               /\ DOMAIN c = UNION {DOMAIN r.scan.user_stats[i][2] : i \in RoutedTo(r, gk)}
               /\ \A dh \in DOMAIN c :
                      c[dh] = ScanCountAt(r.scan.user_stats, RoutedTo(r, gk), dh)
        /\ \A gk \in r.updated_gks \cap DictKeys(r.final_data) :
               \A dh \in DOMAIN Get(r.final_data, gk).counts :
                   Get(r.final_data, gk).counts[dh] =
                       QualifyingAt(l, {r.scan.user_stats[i][1] : i \in RoutedTo(r, gk)}, dh)

(* a run over three records of one user in one hour, into a key that       *)
(* already holds counts from the run before                                *)
C8_Witness ==
    \E l \in Listings(files) :
        LET r == RunFrom(l) IN
        \E gk \in r.updated_gks :
            /\ Has(snapshot, gk)
            /\ Has(r.final_data, gk)
            /\ \E dh \in DOMAIN Get(r.final_data, gk).counts :
                   /\ Get(r.final_data, gk).counts[dh] = 3
                   /\ CountAt(Get(snapshot, gk).counts, dh) = 3

(* C9: after runs whose writes all succeed, the table game_ids and the     *)
(* snapshot hold the same map.                                             *)
C9_StoreMirrorsSnapshot == store = AsMap(snapshot)

(* C10: every hash of the scan's trigger record is of a message to the     *)
(* configured admin with an amount at or above the run's threshold, also   *)
(* when the file's result is taken from the cache, and no user has a hash  *)
(* twice.                                                                  *)
C10_TriggersAtThreshold ==
    \A l \in Listings(files) :
        LET trig == RunFrom(l).scan.secret_triggers IN
        \A i \in 1..Len(trig) :
            LET ts == trig[i][2] IN
            /\ \A j \in 1..Len(ts) :
                   /\ adminId # NoAdmin
                   /\ ts[j][5] = adminId
                   /\ ts[j][6] >= refillCost
            /\ \A j, k \in 1..Len(ts) : ts[j] = ts[k] => j = k

NoRepeat(list) == \A j, k \in 1..Len(list) : list[j] = list[k] => j = k

(* C11: after any sequence of runs from the empty persisted state, no entry *)
(* of the final state holds an event hash twice in secretTriggers.         *)
C11_NoDuplicateHash ==
    /\ \A i \in 1..Len(snapshot) : NoRepeat(snapshot[i][2].secretTriggers)
    /\ \A k \in DOMAIN store : NoRepeat(store[k].secretTriggers)
    /\ \A l \in Listings(files) :
           LET final == RunFrom(l).final_data IN
           \A i \in 1..Len(final) : NoRepeat(final[i][2].secretTriggers)

(* a run that finds again, in two files, a hash the entry already holds    *)
(* from the run before                                                     *)
C11_Witness ==
    \E l \in Listings(files) :
        LET r == RunFrom(l) IN
        \E i \in 1..Len(r.final_data) :
            LET gk == r.final_data[i][1]
                e == r.final_data[i][2]
            IN /\ Has(snapshot, gk)
               /\ Has(r.scan.secret_triggers, e.id)
               /\ \E t \in {e.secretTriggers[j] : j \in 1..Len(e.secretTriggers)} :
                      /\ \E j \in 1..Len(Get(snapshot, gk).secretTriggers) :
                             Get(snapshot, gk).secretTriggers[j] = t
                      /\ \E j \in 1..Len(Get(r.scan.secret_triggers, e.id)) :
                             Get(r.scan.secret_triggers, e.id)[j] = t
                      /\ \E pa, pb \in Places(l) :
                             /\ pa[1] # pb[1]
                             /\ Hash(RecordAt(pa)) = t
                             /\ Hash(RecordAt(pb)) = t

(* A run started in the current state in which the things of f fail *)
RunWith(l, f) ==
    run_extraction(l, files, cacheFile, snapshot, now, adminId, refillCost, f)

(* the files whose contribution the failure f takes out of a run: those    *)
(* that cannot be examined, those that must be read and cannot be, and     *)
(* those of a directory that cannot be listed                              *)
TakenOut(l, f) ==
    {p \in Listed(l) :
        \/ p \in f.stat
        \/ p \in f.read /\ ~CacheHit(LoadCache(cacheFile), p, files[p])
        \/ DirOf(p) \in f.list}

Without(l, S) ==
    [d \in DOMAIN l |-> SelectSeq(l[d], LAMBDA p : p \notin S)]

(* C12: one failure on the input side (a file that cannot be examined or   *)
(* read, a directory that cannot be listed) does not stop the run: no      *)
(* exception leaves run_extraction, and the run reconciles what the other  *)
(* files and boards hold.                                                  *)
C12_InputFailureContained ==
    /\ \A i \in 1..Len(log) : log[i].target # "critical"
    /\ pc = "idle" =>
          \A l \in Listings(files) : \A f \in InputFaults(l) :
              LET r == RunWith(l, f) IN
              /\ ~r.raised
              /\ r.final_data = RunWith(Without(l, TakenOut(l, f)), NoFaults).final_data

Targets(lg) == [i \in 1..Len(lg) |-> lg[i].target]

(* C13: whatever the outcomes of the store write and of the snapshot       *)
(* write, the run goes on to the next target: when it is at the snapshot   *)
(* write it has attempted the store write, when it is at the cache save it *)
(* has attempted both, and no failed write ends it with a critical error.  *)
C13_AllTargetsAttempted ==
    /\ pc \in {"json_open", "json_dump", "json_replace"} =>
           Targets(log) = <<"store">>
    /\ pc \in {"cache_open", "cache_dump", "cache_replace"} =>
           Targets(log) = <<"store", "snapshot">>
    /\ \A i \in 1..Len(log) : log[i].target # "critical"

(* the cache is being saved after the store write and the snapshot write   *)
(* have both failed                                                        *)
C13_Witness ==
    /\ pc = "cache_dump"
    /\ log = <<Attempt("store", FALSE), Attempt("snapshot", FALSE)>>
    /\ mem.final_data # <<>>

(* C14: in every step, a kill and a failed write included, no partially    *)
(* written file becomes visible at game_ids.json or game_ids_cache.json,   *)
(* and the content at either path changes only by the rename of its fully  *)
(* written temporary file, to the complete new content.                    *)
C14_AtomicReplace ==
    [][/\ torn' = {}
       /\ snapshot' # snapshot =>
              /\ pc = "json_replace"
              /\ tmpJson.exists /\ tmpJson.whole
              /\ tmpJson.data = mem.final_data
              /\ snapshot' = tmpJson.data
       /\ cacheFile' # cacheFile =>
              /\ pc = "cache_replace"
              /\ tmpCache.exists /\ tmpCache.whole
              /\ tmpCache.data = mem.cache
              /\ cacheFile' = [ok |-> TRUE, map |-> tmpCache.data]]_vars

(* a run stopped in the middle of the dump has left a part of the new text *)
(* in the temporary file, and game_ids.json still holds the complete state *)
(* of the run before                                                       *)
C14_Witness ==
    /\ pc = "idle"
    /\ tmpJson.exists /\ ~tmpJson.whole
    /\ snapshot # <<>>
    /\ store = AsMap(snapshot)
    /\ torn = {}

(* the day after a date, by the lengths of the months *)
NextDay(ds) ==
    IF ds[3] < DaysInMonth(ds[1], ds[2]) THEN <<ds[1], ds[2], ds[3] + 1>>
    ELSE IF ds[2] < 12 THEN <<ds[1], ds[2] + 1, 1>>
    ELSE <<ds[1] + 1, 1, 1>>

RECURSIVE Advance(_, _)
Advance(ds, k) == IF k = 0 THEN ds ELSE Advance(NextDay(ds), k - 1)

(* C15: a counted record with raw hour h (0..99) is stored under hour      *)
(* h mod 24, which is in 0..23, and under the raw date advanced by         *)
(* h div 24 days of the calendar; nothing is stored under another date or  *)
(* hour.                                                                   *)
C15_HourNormalised ==
    \A l \in Listings(files) :
        LET stats == RunFrom(l).scan.user_stats IN
        /\ \A pl \in Places(l) :
               LET rec == RecordAt(pl) IN
               Qualifies(rec) =>
                   /\ Has(stats, rec.uid)
                   /\ \E dh \in DOMAIN Get(stats, rec.uid) :
                          /\ dh[2] = rec.hour % 24
                          /\ dh[2] \in 0..23
                          /\ DateStr(dh[1]) = Advance(DateStr(rec.day), rec.hour \div 24)
        /\ \A i \in 1..Len(stats) : \A dh \in DOMAIN stats[i][2] :
               /\ dh[2] \in 0..23
               /\ \E pl \in Places(l) :
                      /\ RecordAt(pl).uid = stats[i][1]
                      /\ dh[2] = RecordAt(pl).hour % 24
                      /\ DateStr(dh[1]) =
                             Advance(DateStr(RecordAt(pl).day), RecordAt(pl).hour \div 24)

(* a post of 2024/02/28 at hour 49 has been counted and is in the final    *)
(* state under 2024/03/01, hour 1                                          *)
C15_Witness ==
    /\ \E pl \in Places([d \in {"garden", "karesansui"} |-> <<"garden/1.dat">>]) :
           /\ DateStr(RecordAt(pl).day) = <<2024, 2, 28>>
           /\ RecordAt(pl).hour = 49
    /\ \E i \in 1..Len(snapshot) :
           DOMAIN snapshot[i][2].counts = {<<DayNumber(<<2024, 3, 1>>), 1>>}

(* the files of a listing in the order the scan takes them *)
ScanOrder(l) == l[BOARDS[1]] \o l[BOARDS[2]]
PlaceOf(l, p) == CHOOSE j \in 1..Len(ScanOrder(l)) : ScanOrder(l)[j] = p

(* record pa is scanned before record pb *)
ScannedBefore(l, pa, pb) ==
    \/ PlaceOf(l, pa[1]) < PlaceOf(l, pb[1])
    \/ pa[1] = pb[1] /\ pa[2] < pb[2]

(* C16: in one scan a key stays with the user of the first counted record  *)
(* that carries it, in scan order over the records, files and directories. *)
C16_FirstCandidateWins ==
    \A l \in Listings(files) :
        LET g2u == RunWithoutCache(l).scan.game_to_user IN
        \A i \in 1..Len(g2u) :
            \E pl \in Places(l) :
                /\ Qualifies(RecordAt(pl))
                /\ FirstCandidate(RecordAt(pl)) = g2u[i][1]
                /\ RecordAt(pl).uid = g2u[i][2]
                /\ \A other \in Places(l) :
                       (/\ Qualifies(RecordAt(other))
                        /\ FirstCandidate(RecordAt(other)) = g2u[i][1])
                           => ~ScannedBefore(l, other, pl)

BoundTo(g2u, u) == {i \in 1..Len(g2u) : g2u[i][2] = u}
StatsOf(stats, u) == IF Has(stats, u) THEN Get(stats, u) ELSE EmptyCounts

(* all of u's stats of the scan are in the counts of key gk after folding  *)
FoldedInto(r, u, gk) ==
    /\ gk \in r.updated_gks
    /\ \A dh \in DOMAIN StatsOf(r.scan.user_stats, u) :
           CountAt(Get(r.built, gk).counts, dh) >= StatsOf(r.scan.user_stats, u)[dh]

(* none of u's stats of the scan went into key gk: the key was not touched *)
(* and is as the prior state had it, or holds the stats of other users     *)
NotFoldedInto(r, u, gk) ==
    Has(r.built, gk) =>
        IF gk \in r.updated_gks
        THEN /\ \A i \in RoutedTo(r, gk) : r.scan.user_stats[i][1] # u
             /\ \A dh \in DOMAIN Get(r.built, gk).counts :
                    Get(r.built, gk).counts[dh] =
                        ScanCountAt(r.scan.user_stats, RoutedTo(r, gk), dh)
        ELSE Has(snapshot, gk) /\ Get(r.built, gk) = Get(snapshot, gk)

(* a user with stats and no resolved key leaves no entry *)
UnroutedDropped(r) ==
    \A i \in 1..Len(r.scan.user_stats) :
        LET u == r.scan.user_stats[i][1] IN
        u \notin DOMAIN r.uid_to_gk => EntriesOf(r.built, u) = {}

(* C17 as stated: when the prior state has key K' with id U and the scan   *)
(* binds a key K other than K' to U, U resolves to K, all of U's stats are *)
(* folded into K and none into K'; a user without a resolved key leaves no *)
(* entry.                                                                  *)
C17_FreshBindingWins ==
    \A l \in Listings(files) :
        LET r == RunFrom(l) IN
        /\ \A u \in Users : \A kp \in DictKeys(snapshot) : \A k \in Keys :
               (/\ Get(snapshot, kp).id = u
                /\ k # kp
                /\ \E i \in BoundTo(r.scan.game_to_user, u) :
                       r.scan.game_to_user[i][1] = k)
                   => /\ r.uid_to_gk[u] = k
                      /\ FoldedInto(r, u, k)
                      /\ NotFoldedInto(r, u, kp)
        /\ UnroutedDropped(r)

(* the key the scan's mapping binds to u last *)
LastBound(g2u, u) == g2u[SetMax(BoundTo(g2u, u))][1]

(* C17 amended: when the prior state has key K' with id U and the scan     *)
(* binds keys to U, U resolves to the key K that the scan's mapping binds  *)
(* to U last (a key other than K' unless the scan binds K' to U after it), *)
(* all of U's stats are folded into K and none into any other key; a user  *)
(* without a resolved key leaves no entry.                                 *)
C17_LastFreshBindingWins ==
    \A l \in Listings(files) :
        LET r == RunFrom(l) IN
        /\ \A u \in Users :
               BoundTo(r.scan.game_to_user, u) # {} =>
                   LET k == LastBound(r.scan.game_to_user, u) IN
                   /\ r.uid_to_gk[u] = k
                   /\ FoldedInto(r, u, k)
                   /\ \A other \in Keys \ {k} : NotFoldedInto(r, u, other)
        /\ UnroutedDropped(r)

(* the prior state holds K' for U, the scan binds another key K to U last, *)
(* U's stats go to K and none to K', which stays in the state; in the same *)
(* scan a user with stats has no key                                       *)
C17_Witness ==
    \E l \in Listings(files) :
        LET r == RunFrom(l) IN
        /\ \E u \in Users : \E kp \in DictKeys(snapshot) :
               /\ Get(snapshot, kp).id = u
               /\ BoundTo(r.scan.game_to_user, u) # {}
               /\ LastBound(r.scan.game_to_user, u) # kp
               /\ r.uid_to_gk[u] = LastBound(r.scan.game_to_user, u)
               /\ FoldedInto(r, u, LastBound(r.scan.game_to_user, u))
               /\ Has(r.built, kp)
               /\ NotFoldedInto(r, u, kp)
        /\ \E i \in 1..Len(r.scan.user_stats) :
               r.scan.user_stats[i][1] \notin DOMAIN r.uid_to_gk

(* the tuple of an entry: latest date, total on that date, key *)
TupleOf(kv) ==
    LET dates == Dates(kv[2].counts)
        last == CHOOSE d \in dates : \A e \in dates : e <= d
    IN <<last, SumOver(kv[2].counts, {p \in DOMAIN kv[2].counts : p[1] = last}),
         KeyRank(kv[1])>>

(* t is greater than s, comparing the first components, then the second,   *)
(* then the third                                                          *)
LexGreater(t, s) ==
    \/ t[1] > s[1]
    \/ t[1] = s[1] /\ t[2] > s[2]
    \/ t[1] = s[1] /\ t[2] = s[2] /\ t[3] > s[3]

(* C18: of the entries of a user left after pruning, when there are more   *)
(* than one, exactly the one with the greatest tuple (latest date, total   *)
(* on that date, key) is kept; the entry of a user with one key is kept as *)
(* it is, and the deduplication adds and changes nothing.                  *)
C18_KeepsGreatestTuple ==
    \A l \in Listings(files) :
        LET r == RunFrom(l) IN
        /\ \A u \in Users :
               LET before == {r.pruned[i] : i \in EntriesOf(r.pruned, u)}
                   after == {r.final_data[i] : i \in EntriesOf(r.final_data, u)}
               IN /\ Cardinality(EntriesOf(r.final_data, u)) = Cardinality(after)
                  /\ Cardinality(before) > 1 =>
                         after = {kv \in before :
                                     \A other \in before \ {kv} :
                                         LexGreater(TupleOf(kv), TupleOf(other))}
                  /\ Cardinality(before) > 1 => Cardinality(after) = 1
                  /\ Cardinality(before) <= 1 => after = before
        /\ \A i \in 1..Len(r.final_data) :
               \E j \in 1..Len(r.pruned) : r.pruned[j] = r.final_data[i]

(* two entries of a user are left after pruning, equal in latest date and  *)
(* in the total on it, and the one with the greater key is kept            *)
C18_Witness ==
    \E l \in Listings(files) :
        LET r == RunFrom(l) IN
        \E u \in Users :
            /\ Cardinality(EntriesOf(r.pruned, u)) = 2
            /\ \A i, j \in EntriesOf(r.pruned, u) :
                   /\ TupleOf(r.pruned[i])[1] = TupleOf(r.pruned[j])[1]
                   /\ TupleOf(r.pruned[i])[2] = TupleOf(r.pruned[j])[2]
            /\ \E i \in EntriesOf(r.final_data, u) : r.final_data[i][1] = "bbbbbbbb"

(* C19: an entry that receives stats in a run holds, for every date and    *)
(* hour, the count of the scan for the user that is its id, and no date or *)
(* hour that user has none on: no other user's records are in it.          *)
C19_CountsOfOwnUser ==
    \A l \in Listings(files) :
        LET r == RunFrom(l) IN
        \A i \in 1..Len(r.final_data) :
            r.final_data[i][1] \in r.updated_gks =>
                r.final_data[i][2].counts =
                    PruneCounts(StatsOf(r.scan.user_stats, r.final_data[i][2].id),
                                CutoffDate(now))

(* the scan binds exactly the key k to user u *)
BindsOnly(r, u, k) ==
    /\ BoundTo(r.scan.game_to_user, u) # {}
    /\ \A i \in BoundTo(r.scan.game_to_user, u) : r.scan.game_to_user[i][1] = k

RetainedStats(r, u) == PruneCounts(StatsOf(r.scan.user_stats, u), CutoffDate(now))

(* C20: when the scan binds exactly one key K to user U and U has scanned  *)
(* activity on a retained date, the final state has one entry for U, under *)
(* K, with U's retained counts of the scan.                                *)
C20_FreshActivityKept ==
    \A l \in Listings(files) :
        LET r == RunFrom(l) IN
        \A u \in Users : \A k \in Keys :
            (BindsOnly(r, u, k) /\ DOMAIN RetainedStats(r, u) # {}) =>
                /\ Cardinality(EntriesOf(r.final_data, u)) = 1
                /\ \A i \in EntriesOf(r.final_data, u) :
                       /\ r.final_data[i][1] = k
                       /\ r.final_data[i][2].counts = RetainedStats(r, u)

====
